---- MODULE Spec2Model ----
(***************************************************************************)
(* Model of the anonpy command line shell (src/anonpy/__main__.py) and of  *)
(* the Scoped Logger / Provider Client it drives.  The shell is translated *)
(* statement by statement; the logger and the client operations, whose     *)
(* code lives in anonpy.internals / anonpy.anonpy, follow their contract.  *)
(***************************************************************************)
EXTENDS Integers, Sequences, FiniteSets, TLC

\* ---------------------------------------------------------------- bounds
MaxItems == 2
MaxOps == 3

\* ------------------------------------------------------------ value sets
Resources == {"r1", "r2"}
Files == {"a", "b"}
Names == {"a"}
NoName == "None"
Cwd == "cwd"
Dest == "dest"
Dirs == {Cwd, Dest}
log_file == "cli.log"
test_log_file == "test.json"
HandlerNames == {log_file, test_log_file}
Missing == <<"missing">>
NoPath == "nopath"
BasePaths == {"module_folder", "home"}

ClientErrors == {"KeyboardInterrupt", "NotImplementedError", "HTTPError", "Exception", "BaseException"}

SeqsUpTo(S, n) == UNION {[1..k -> S] : k \in 0..n}
NonEmptySeqs(S, n) == UNION {[1..k -> S] : k \in 1..n}

VARIABLES pc, args, remote, fs, module_folder, provider, enable_logging,
          logger, logfiles, items, i, preview, inflight, events, out,
          handles, exc, caught, escaped, raisedAt, callCount

vars == <<pc, args, remote, fs, module_folder, provider, enable_logging,
          logger, logfiles, items, i, preview, inflight, events, out,
          handles, exc, caught, escaped, raisedAt, callCount>>

\* ------------------------------------------------------- Scoped Logger
LoggerNew == [state |-> "Uninitialized", path |-> NoPath, handlers |-> {}]

set_base_path(l, p) == [l EXCEPT !.path = p,
                                 !.state = IF @ = "Uninitialized" THEN "BasePathSet" ELSE @]

add_handler(l, name) == [l EXCEPT !.handlers = @ \cup {name}, !.state = "HandlersAttached"]

add_handler_file(files, name) ==
    [files EXCEPT ![name] = IF @ = Missing THEN <<>> ELSE @]

\* variant: the hide flag is ignored and every record is persisted
debug_ignores_hide(l, files, msg, hide) ==
    [n \in HandlerNames |->
        IF n \in l.handlers /\ files[n] # Missing THEN Append(files[n], msg) ELSE files[n]]

debug(l, files, msg, hide) ==
    IF hide THEN files
    ELSE [n \in HandlerNames |->
            IF n \in l.handlers /\ files[n] # Missing THEN Append(files[n], msg) ELSE files[n]]

get_log_history(files, name) == IF files[name] = Missing THEN <<>> ELSE files[name]

unlink(l, name) == [l EXCEPT !.handlers = @ \ {name}]

\* variant: the handler is detached but its file is left on disk
unlink_file_keeps(files, name) == files

unlink_file(files, name) == [files EXCEPT ![name] = Missing]

shutdown(l) == [l EXCEPT !.state = "ShutDown", !.handlers = {}]

LogHandles(l) == {<<"log", l.path, n>> : n \in l.handlers}

\* ------------------------------------------------------------ arguments
PreviewArgs ==
    {[command |-> "preview", verbose |-> v, check |-> FALSE, logging |-> l,
      resource |-> r, file |-> <<>>, batch_file |-> <<>>, path |-> Cwd] :
        v \in BOOLEAN, l \in BOOLEAN, r \in NonEmptySeqs(Resources, MaxItems)}

UploadArgs ==
    {[command |-> "upload", verbose |-> v, check |-> FALSE, logging |-> l,
      resource |-> <<>>, file |-> f, batch_file |-> <<>>, path |-> Cwd] :
        v \in BOOLEAN, l \in BOOLEAN, f \in NonEmptySeqs(Files, MaxItems)}

DownloadArgs ==
    {a \in [command : {"download"}, verbose : BOOLEAN, check : BOOLEAN, logging : BOOLEAN,
            resource : SeqsUpTo(Resources, MaxItems), file : {<<>>},
            batch_file : SeqsUpTo(Resources, MaxItems), path : Dirs] :
        a.resource = <<>> \/ a.batch_file = <<>>}

OtherArgs ==
    {[command |-> "none", verbose |-> FALSE, check |-> FALSE, logging |-> l,
      resource |-> <<>>, file |-> <<>>, batch_file |-> <<>>, path |-> Cwd] : l \in BOOLEAN}

NoPreview == [name |-> NoName, valid |-> FALSE]

Idle ==
    /\ items = <<>>
    /\ i = 1
    /\ preview = NoPreview
    /\ inflight = {}
    /\ events = <<>>
    /\ out = <<>>
    /\ handles = {}
    /\ exc = "none"
    /\ caught = "none"
    /\ escaped = FALSE
    /\ raisedAt = 0
    /\ callCount = 0
    /\ logfiles = [n \in HandlerNames |-> Missing]

Init ==
    /\ pc = "get_resource_path"
    /\ args \in PreviewArgs \cup UploadArgs \cup DownloadArgs \cup OtherArgs
    /\ remote \in [Resources -> Names \cup {NoName}]
    /\ fs \in SUBSET {<<Cwd, "a">>, <<Dest, "a">>}
    /\ module_folder = FALSE
    /\ provider = FALSE
    /\ enable_logging = FALSE
    /\ logger = [state |-> "Absent", path |-> NoPath, handlers |-> {}]
    /\ Idle

Raise(e) == pc' = "except" /\ exc' = e

Log(msg) == logfiles' = debug(logger, logfiles, msg, ~enable_logging)

Event(e) == events' = Append(events, [e |-> e, k |-> i])

Emit(stream, kind, path) == out' = Append(out, [stream |-> stream, kind |-> kind, k |-> i, path |-> path])

\* ------------------------------------------------------- main(): set-up
StartupErrors == {"KeyboardInterrupt", "Exception", "BaseException"}

GetResourcePath ==
    /\ pc = "get_resource_path"
    /\ module_folder' = TRUE
    /\ pc' = "construct"
    /\ UNCHANGED <<args, remote, fs, provider, enable_logging, logger, logfiles, items, i,
                   preview, inflight, events, out, handles, exc, caught, escaped, raisedAt, callCount>>

GetResourcePathRaise ==
    /\ pc = "get_resource_path"
    /\ \E e \in StartupErrors : Raise(e)
    /\ UNCHANGED <<args, remote, fs, module_folder, provider, enable_logging, logger, logfiles,
                   items, i, preview, inflight, events, out, handles, caught, escaped, raisedAt, callCount>>

\* variant: the logger is left unconfigured before the command runs
ConstructNoConfig ==
    /\ pc = "construct"
    /\ provider' = TRUE
    /\ enable_logging' = args.logging
    /\ logger' = LoggerNew
    /\ pc' = "match"
    /\ UNCHANGED <<args, remote, fs, module_folder, logfiles, items, i, preview, inflight,
                   events, out, handles, exc, caught, escaped, raisedAt, callCount>>

Construct ==
    /\ pc = "construct"
    /\ provider' = TRUE
    /\ enable_logging' = args.logging
    /\ logger' = LoggerNew
    /\ pc' = "set_base_path"
    /\ UNCHANGED <<args, remote, fs, module_folder, logfiles, items, i, preview, inflight,
                   events, out, handles, exc, caught, escaped, raisedAt, callCount>>

ConstructRaise ==
    /\ pc = "construct"
    /\ \E e \in StartupErrors : Raise(e)
    /\ UNCHANGED <<args, remote, fs, module_folder, provider, enable_logging, logger, logfiles,
                   items, i, preview, inflight, events, out, handles, caught, escaped, raisedAt, callCount>>

SetBasePath ==
    /\ pc = "set_base_path"
    /\ logger' = set_base_path(logger, "module_folder")
    /\ Event("set_base_path")
    /\ pc' = "add_handler"
    /\ UNCHANGED <<args, remote, fs, module_folder, provider, enable_logging, logfiles, items, i,
                   preview, inflight, out, handles, exc, caught, escaped, raisedAt, callCount>>

SetBasePathRaise ==
    /\ pc = "set_base_path"
    /\ \E e \in StartupErrors : Raise(e)
    /\ UNCHANGED <<args, remote, fs, module_folder, provider, enable_logging, logger, logfiles,
                   items, i, preview, inflight, events, out, handles, caught, escaped, raisedAt, callCount>>

AddHandler ==
    /\ pc = "add_handler"
    /\ logger' = add_handler(logger, log_file)
    /\ logfiles' = add_handler_file(logfiles, log_file)
    /\ handles' = handles \cup LogHandles(logger')
    /\ Event("add_handler")
    /\ pc' = "match"
    /\ UNCHANGED <<args, remote, fs, module_folder, provider, enable_logging, items, i,
                   preview, inflight, out, exc, caught, escaped, raisedAt, callCount>>

AddHandlerRaise ==
    /\ pc = "add_handler"
    /\ \E e \in StartupErrors : Raise(e)
    /\ UNCHANGED <<args, remote, fs, module_folder, provider, enable_logging, logger, logfiles,
                   items, i, preview, inflight, events, out, handles, caught, escaped, raisedAt, callCount>>

Match ==
    /\ pc = "match"
    /\ IF args.command \in {"preview", "upload", "download"}
       THEN pc' = args.command /\ exc' = exc
       ELSE Raise("NotImplementedError")
    /\ UNCHANGED <<args, remote, fs, module_folder, provider, enable_logging, logger, logfiles,
                   items, i, preview, inflight, events, out, handles, caught, escaped, raisedAt, callCount>>

\* ---------------------------------------------------- command: preview
\* anon.preview: the Preview Record of a resource
anon_preview(resource) == [name |-> remote[resource], valid |-> TRUE]

PreviewCall ==
    /\ pc = "preview"
    /\ i <= Len(args.resource)
    /\ inflight' = inflight \cup {"preview"}
    /\ Event("preview")
    /\ Log("preview")
    /\ callCount' = callCount + 1
    /\ pc' = "preview_ret"
    /\ UNCHANGED <<args, remote, fs, module_folder, provider, enable_logging, logger, items, i,
                   preview, out, handles, exc, caught, escaped, raisedAt>>

PreviewReturn ==
    /\ pc = "preview_ret"
    /\ inflight' = inflight \ {"preview"}
    /\ preview' = anon_preview(args.resource[i])
    /\ Emit("stdout", "preview", <<>>)
    /\ i' = i + 1
    /\ pc' = "preview"
    /\ UNCHANGED <<args, remote, fs, module_folder, provider, enable_logging, logger, logfiles,
                   items, events, handles, exc, caught, escaped, raisedAt, callCount>>

\* variant: the loop swallows the error and goes on with the next resource
PreviewRaiseSwallowed ==
    /\ pc = "preview_ret"
    /\ inflight' = inflight \ {"preview"}
    /\ raisedAt' = i
    /\ i' = i + 1
    /\ pc' = "preview"
    /\ UNCHANGED <<args, remote, fs, module_folder, provider, enable_logging, logger, logfiles,
                   items, preview, events, out, handles, exc, caught, escaped, callCount>>

PreviewRaise ==
    /\ pc = "preview_ret"
    /\ inflight' = inflight \ {"preview"}
    /\ raisedAt' = i
    /\ \E e \in ClientErrors : Raise(e)
    /\ UNCHANGED <<args, remote, fs, module_folder, provider, enable_logging, logger, logfiles,
                   items, i, preview, events, out, handles, caught, escaped, callCount>>

PreviewDone ==
    /\ pc = "preview"
    /\ i > Len(args.resource)
    /\ pc' = "finally"
    /\ UNCHANGED <<args, remote, fs, module_folder, provider, enable_logging, logger, logfiles,
                   items, i, preview, inflight, events, out, handles, exc, caught, escaped,
                   raisedAt, callCount>>

\* ----------------------------------------------------- command: upload
UploadCall ==
    /\ pc = "upload"
    /\ i <= Len(args.file)
    /\ inflight' = inflight \cup {"upload"}
    /\ Event("upload")
    /\ Log("upload")
    /\ callCount' = callCount + 1
    /\ handles' = IF <<Cwd, args.file[i]>> \in fs
                  THEN handles \cup {<<"src", Cwd, args.file[i]>>} ELSE handles
    /\ pc' = "upload_ret"
    /\ UNCHANGED <<args, remote, fs, module_folder, provider, enable_logging, logger, items, i,
                   preview, out, exc, caught, escaped, raisedAt>>

UploadReturn ==
    /\ pc = "upload_ret"
    /\ <<Cwd, args.file[i]>> \in fs
    /\ inflight' = inflight \ {"upload"}
    /\ handles' = handles \ {<<"src", Cwd, args.file[i]>>}
    /\ IF args.verbose
       THEN pc' = "upload_md5" /\ i' = i
       ELSE pc' = "upload" /\ i' = i + 1
    /\ UNCHANGED <<args, remote, fs, module_folder, provider, enable_logging, logger, logfiles,
                   items, preview, events, out, exc, caught, escaped, raisedAt, callCount>>

UploadRaise ==
    /\ pc = "upload_ret"
    /\ inflight' = inflight \ {"upload"}
    /\ handles' = handles \ {<<"src", Cwd, args.file[i]>>}
    /\ raisedAt' = i
    /\ \E e \in ClientErrors :
          /\ (<<Cwd, args.file[i]>> \notin fs => e = "Exception")
          /\ Raise(e)
    /\ UNCHANGED <<args, remote, fs, module_folder, provider, enable_logging, logger, logfiles,
                   items, i, preview, events, out, caught, escaped, callCount>>

UploadMd5 ==
    /\ pc = "upload_md5"
    /\ Emit("stdout", "md5", <<Cwd, args.file[i]>>)
    /\ i' = i + 1
    /\ pc' = "upload"
    /\ UNCHANGED <<args, remote, fs, module_folder, provider, enable_logging, logger, logfiles,
                   items, preview, inflight, events, handles, exc, caught, escaped, raisedAt,
                   callCount>>

UploadDone ==
    /\ pc = "upload"
    /\ i > Len(args.file)
    /\ pc' = "finally"
    /\ UNCHANGED <<args, remote, fs, module_folder, provider, enable_logging, logger, logfiles,
                   items, i, preview, inflight, events, out, handles, exc, caught, escaped,
                   raisedAt, callCount>>

\* --------------------------------------------------- command: download
\* args.batch_file stands for the lines read from the batch file
DownloadTarget(resource) == IF remote[resource] # NoName THEN remote[resource] ELSE resource

\* anon.download: the file written and the sink handed back, still open
anon_download_file(resource, path) == <<path, DownloadTarget(resource)>>

anon_download_sink(resource, path) == <<"sink", path, DownloadTarget(resource)>>

DlItems ==
    /\ pc = "download"
    /\ items' = IF args.resource # <<>> THEN args.resource ELSE args.batch_file
    /\ pc' = "dl_loop"
    /\ UNCHANGED <<args, remote, fs, module_folder, provider, enable_logging, logger, logfiles,
                   i, preview, inflight, events, out, handles, exc, caught, escaped, raisedAt,
                   callCount>>

DlItemsRaise ==
    /\ pc = "download"
    /\ args.resource = <<>>
    /\ \E e \in {"KeyboardInterrupt", "Exception"} : Raise(e)
    /\ UNCHANGED <<args, remote, fs, module_folder, provider, enable_logging, logger, logfiles,
                   items, i, preview, inflight, events, out, handles, caught, escaped, raisedAt,
                   callCount>>

DlPreviewCall ==
    /\ pc = "dl_loop"
    /\ i <= Len(items)
    /\ inflight' = inflight \cup {"preview"}
    /\ Event("preview")
    /\ Log("preview")
    /\ callCount' = callCount + 1
    /\ pc' = "dl_preview_ret"
    /\ UNCHANGED <<args, remote, fs, module_folder, provider, enable_logging, logger, items, i,
                   preview, out, handles, exc, caught, escaped, raisedAt>>

DlPreviewReturn ==
    /\ pc = "dl_preview_ret"
    /\ inflight' = inflight \ {"preview"}
    /\ preview' = anon_preview(items[i])
    /\ pc' = "dl_check"
    /\ UNCHANGED <<args, remote, fs, module_folder, provider, enable_logging, logger, logfiles,
                   items, i, events, out, handles, exc, caught, escaped, raisedAt, callCount>>

DlPreviewRaise ==
    /\ pc = "dl_preview_ret"
    /\ inflight' = inflight \ {"preview"}
    /\ raisedAt' = i
    /\ \E e \in ClientErrors : Raise(e)
    /\ UNCHANGED <<args, remote, fs, module_folder, provider, enable_logging, logger, logfiles,
                   items, i, preview, events, out, handles, caught, escaped, callCount>>

OverwriteCheck == args.check /\ preview.name # NoName /\ <<Cwd, preview.name>> \in fs

DlCheck ==
    /\ pc = "dl_check"
    /\ IF OverwriteCheck
       THEN /\ Emit("stdout", "warning", <<args.path, preview.name>>)
            /\ pc' = "dl_prompt"
       ELSE /\ out' = out
            /\ pc' = "dl_download"
    /\ UNCHANGED <<args, remote, fs, module_folder, provider, enable_logging, logger, logfiles,
                   items, i, preview, inflight, events, handles, exc, caught, escaped, raisedAt,
                   callCount>>

\* variant: a declined prompt ends the whole batch
DlPromptAbort ==
    /\ pc = "dl_prompt"
    /\ \E proceed \in BOOLEAN :
          IF proceed
          THEN Event("prompt_yes") /\ pc' = "dl_download" /\ i' = i
          ELSE Event("prompt_no") /\ pc' = "finally" /\ i' = i
    /\ UNCHANGED <<args, remote, fs, module_folder, provider, enable_logging, logger, logfiles,
                   items, preview, inflight, out, handles, exc, caught, escaped, raisedAt,
                   callCount>>

DlPrompt ==
    /\ pc = "dl_prompt"
    /\ \E proceed \in BOOLEAN :
          IF proceed
          THEN Event("prompt_yes") /\ pc' = "dl_download" /\ i' = i
          ELSE Event("prompt_no") /\ pc' = "dl_loop" /\ i' = i + 1
    /\ UNCHANGED <<args, remote, fs, module_folder, provider, enable_logging, logger, logfiles,
                   items, preview, inflight, out, handles, exc, caught, escaped, raisedAt,
                   callCount>>

DlPromptRaise ==
    /\ pc = "dl_prompt"
    /\ Event("prompt_raise")
    /\ \E e \in {"KeyboardInterrupt", "Exception"} : Raise(e)
    /\ UNCHANGED <<args, remote, fs, module_folder, provider, enable_logging, logger, logfiles,
                   items, i, preview, inflight, out, handles, caught, escaped, raisedAt,
                   callCount>>

DlDownloadCall ==
    /\ pc = "dl_download"
    /\ inflight' = inflight \cup {"download"}
    /\ Event("download")
    /\ Log("download")
    /\ callCount' = callCount + 1
    /\ pc' = "dl_download_ret"
    /\ UNCHANGED <<args, remote, fs, module_folder, provider, enable_logging, logger, items, i,
                   preview, out, handles, exc, caught, escaped, raisedAt>>

\* variant: the loop does not move on to the next resource after a download
DlDownloadReturnRepeat ==
    /\ pc = "dl_download_ret"
    /\ inflight' = inflight \ {"download"}
    /\ fs' = fs \cup {anon_download_file(items[i], args.path)}
    /\ handles' = handles \cup {anon_download_sink(items[i], args.path)}
    /\ IF args.verbose
       THEN pc' = "dl_md5" /\ i' = i
       ELSE pc' = "dl_loop" /\ i' = i
    /\ UNCHANGED <<args, remote, module_folder, provider, enable_logging, logger, logfiles,
                   items, preview, events, out, exc, caught, escaped, raisedAt, callCount>>

DlDownloadReturn ==
    /\ pc = "dl_download_ret"
    /\ inflight' = inflight \ {"download"}
    /\ fs' = fs \cup {anon_download_file(items[i], args.path)}
    /\ handles' = handles \cup {anon_download_sink(items[i], args.path)}
    /\ IF args.verbose
       THEN pc' = "dl_md5" /\ i' = i
       ELSE pc' = "dl_loop" /\ i' = i + 1
    /\ UNCHANGED <<args, remote, module_folder, provider, enable_logging, logger, logfiles,
                   items, preview, events, out, exc, caught, escaped, raisedAt, callCount>>

DlDownloadRaise ==
    /\ pc = "dl_download_ret"
    /\ inflight' = inflight \ {"download"}
    /\ raisedAt' = i
    /\ \E e \in ClientErrors : Raise(e)
    /\ UNCHANGED <<args, remote, fs, module_folder, provider, enable_logging, logger, logfiles,
                   items, i, preview, events, out, handles, caught, escaped, callCount>>

ChecksumPath == <<Cwd, preview.name>>

DlMd5 ==
    /\ pc = "dl_md5"
    /\ IF preview.name # NoName /\ ChecksumPath \in fs
       THEN /\ out' = out \o << [stream |-> "stdout", kind |-> "file", k |-> i,
                                 path |-> ChecksumPath],
                                [stream |-> "stdout", kind |-> "md5", k |-> i,
                                 path |-> ChecksumPath] >>
            /\ i' = i + 1
            /\ pc' = "dl_loop"
            /\ exc' = exc
       ELSE /\ Raise("Exception")
            /\ UNCHANGED <<out, i>>
    /\ UNCHANGED <<args, remote, fs, module_folder, provider, enable_logging, logger, logfiles,
                   items, preview, inflight, events, handles, caught, escaped, raisedAt,
                   callCount>>

DlDone ==
    /\ pc = "dl_loop"
    /\ i > Len(items)
    /\ pc' = "finally"
    /\ UNCHANGED <<args, remote, fs, module_folder, provider, enable_logging, logger, logfiles,
                   items, i, preview, inflight, events, out, handles, exc, caught, escaped,
                   raisedAt, callCount>>

\* ------------------------------------------- main(): except / finally
Except ==
    /\ pc = "except"
    /\ caught' = exc
    /\ pc' = "finally"
    /\ CASE exc = "KeyboardInterrupt" -> out' = out /\ exc' = "none"
         [] exc = "NotImplementedError" -> Emit("stdout", "help", <<>>) /\ exc' = "none"
         [] exc = "HTTPError" -> Emit("stderr", "body", <<>>) /\ exc' = "none"
         [] exc = "Exception" -> Emit("stderr", "message", <<>>) /\ exc' = "none"
         [] OTHER -> IF module_folder
                     THEN Emit("stderr", "unhandled", <<>>) /\ exc' = "none"
                     ELSE out' = out /\ exc' = "NameError"
    /\ UNCHANGED <<args, remote, fs, module_folder, provider, enable_logging, logger, logfiles,
                   items, i, preview, inflight, events, handles, escaped, raisedAt, callCount>>

Finally ==
    /\ pc = "finally"
    /\ pc' = "exit"
    /\ IF provider
       THEN /\ logger' = shutdown(logger)
            /\ handles' = handles \ LogHandles(logger)
            /\ Event("shutdown")
            /\ escaped' = (exc # "none")
            /\ exc' = exc
       ELSE /\ exc' = "UnboundLocalError"
            /\ escaped' = TRUE
            /\ UNCHANGED <<logger, handles, events>>
    /\ UNCHANGED <<args, remote, fs, module_folder, provider, enable_logging, logfiles,
                   items, i, preview, inflight, out, caught, raisedAt, callCount>>

Next ==
    \/ GetResourcePath \/ GetResourcePathRaise
    \/ Construct \/ ConstructRaise
    \/ SetBasePath \/ SetBasePathRaise
    \/ AddHandler \/ AddHandlerRaise
    \/ Match
    \/ PreviewCall \/ PreviewReturn \/ PreviewRaise \/ PreviewDone
    \/ UploadCall \/ UploadReturn \/ UploadRaise \/ UploadMd5 \/ UploadDone
    \/ DlItems \/ DlItemsRaise
    \/ DlPreviewCall \/ DlPreviewReturn \/ DlPreviewRaise
    \/ DlCheck \/ DlPrompt \/ DlPromptRaise
    \/ DlDownloadCall \/ DlDownloadReturn \/ DlDownloadRaise
    \/ DlMd5 \/ DlDone
    \/ Except \/ Finally

Spec == Init /\ [][Next]_vars


\* ----------------------------------- Scoped Logger driven by a client
\* (the sequence of calls of TestAnonPy.test_preview_with_log_handler,
\*  in any order and any number of times)
InitLib ==
    /\ pc = "lib"
    /\ args \in OtherArgs
    /\ remote = [r \in Resources |-> NoName]
    /\ fs = {}
    /\ module_folder = TRUE
    /\ provider = TRUE
    /\ enable_logging = args.logging
    /\ logger = LoggerNew
    /\ Idle

LibSetBasePath ==
    /\ pc = "lib"
    /\ logger.state # "ShutDown"
    /\ \E p \in BasePaths :
          /\ (logger.handlers = {} \/ p = logger.path)
          /\ logger' = set_base_path(logger, p)
    /\ UNCHANGED <<pc, args, remote, fs, module_folder, provider, enable_logging, logfiles,
                   items, i, preview, inflight, events, out, handles, exc, caught, escaped,
                   raisedAt, callCount>>

LibAddHandler ==
    /\ pc = "lib"
    /\ logger.state \in {"BasePathSet", "HandlersAttached"}
    /\ \E n \in HandlerNames :
          /\ logger' = add_handler(logger, n)
          /\ logfiles' = add_handler_file(logfiles, n)
    /\ handles' = LogHandles(logger')
    /\ UNCHANGED <<pc, args, remote, fs, module_folder, provider, enable_logging,
                   items, i, preview, inflight, events, out, exc, caught, escaped,
                   raisedAt, callCount>>

LibOperation ==
    /\ pc = "lib"
    /\ logger.state # "ShutDown"
    /\ callCount < MaxOps
    /\ callCount' = callCount + 1
    /\ Log("preview")
    /\ UNCHANGED <<pc, args, remote, fs, module_folder, provider, enable_logging, logger,
                   items, i, preview, inflight, events, out, handles, exc, caught, escaped,
                   raisedAt>>

LibSetLogging ==
    /\ pc = "lib"
    /\ enable_logging' = ~enable_logging
    /\ UNCHANGED <<pc, args, remote, fs, module_folder, provider, logger, logfiles,
                   items, i, preview, inflight, events, out, handles, exc, caught, escaped,
                   raisedAt, callCount>>

LibUnlink ==
    /\ pc = "lib"
    /\ Len(events) < MaxOps
    /\ \E n \in logger.handlers :
          /\ logger' = unlink(logger, n)
          /\ logfiles' = unlink_file(logfiles, n)
    /\ handles' = LogHandles(logger')
    /\ Event("unlink")
    /\ UNCHANGED <<pc, args, remote, fs, module_folder, provider, enable_logging,
                   items, i, preview, inflight, out, exc, caught, escaped,
                   raisedAt, callCount>>

LibShutdown ==
    /\ pc = "lib"
    /\ logger' = shutdown(logger)
    /\ handles' = LogHandles(logger')
    /\ UNCHANGED <<pc, args, remote, fs, module_folder, provider, enable_logging, logfiles,
                   items, i, preview, inflight, events, out, exc, caught, escaped,
                   raisedAt, callCount>>

NextLib ==
    \/ LibSetBasePath \/ LibAddHandler \/ LibOperation
    \/ LibSetLogging \/ LibUnlink \/ LibShutdown

SpecLib == InitLib /\ [][NextLib]_vars

\* ------------------------------------------------ observation helpers
OpNames == {"preview", "upload", "download"}
RenderKinds == {"help", "body", "message", "unhandled"}
SummaryKinds == {"file", "md5"}

CmdItems == IF args.command = "preview" THEN args.resource
            ELSE IF args.command = "upload" THEN args.file
            ELSE items

Count(e, k) == Cardinality({j \in 1..Len(events) : events[j].e = e /\ events[j].k = k})

OpEvents == SelectSeq(events, LAMBDA ev : ev.e \in OpNames)

IsRendering(o) == o.kind \in RenderKinds

Renderings == SelectSeq(out, IsRendering)

Before(e1, j) == \E j1 \in 1..(j - 1) : events[j1].e = e1

NormalExit == pc = "exit" /\ caught = "none" /\ exc = "none" /\ ~escaped

\* -------------------------------------------------------------- claims

\* C1: on every path of main() that reaches process exit, the Scoped
\* Logger's shutdown() has been executed.
C1_ShutdownOnEveryPath == pc = "exit" => logger.state = "ShutDown"

\* C2: every exception raised in main()'s try block gets exactly one
\* rendering (KeyboardInterrupt none, NotImplementedError the help text,
\* HTTPError the response body on stderr, any other Exception its message
\* on stderr), and no exception escapes main().
C2_OneRenderingNoEscape ==
    pc = "exit" =>
        /\ ~escaped
        /\ caught = "KeyboardInterrupt" => Renderings = <<>>
        /\ caught = "NotImplementedError" =>
               Len(Renderings) = 1 /\ Renderings[1].kind = "help"
        /\ caught = "HTTPError" =>
               Len(Renderings) = 1 /\ Renderings[1].kind = "body" /\ Renderings[1].stream = "stderr"
        /\ caught = "Exception" =>
               Len(Renderings) = 1 /\ Renderings[1].kind = "message" /\ Renderings[1].stream = "stderr"

\* C3: a logged operation always increments the call count by one; with
\* enable_logging false it leaves the history of every attached handler
\* as it was (an empty history stays empty) while the handler's file
\* exists; with enable_logging true it appends at least one record to the
\* history of every attached handler.
C3_LoggingSuppression ==
    /\ [](\A n \in logger.handlers : logfiles[n] # Missing)
    /\ [][callCount' # callCount =>
            /\ callCount' = callCount + 1
            /\ \A n \in logger.handlers :
                  IF enable_logging
                  THEN Len(get_log_history(logfiles', n)) >= Len(get_log_history(logfiles, n)) + 1
                  ELSE get_log_history(logfiles', n) = get_log_history(logfiles, n)]_vars

C3_Witness ==
    /\ pc = "lib"
    /\ callCount >= 2
    /\ ~enable_logging
    /\ test_log_file \in logger.handlers
    /\ logfiles[test_log_file] # Missing
    /\ get_log_history(logfiles, test_log_file) = <<>>

\* C4: when unlink removes an attached handler, the handler's file is
\* gone, the handler has left the active set and its history is empty;
\* the history stays empty for as long as the handler stays detached.
C4_UnlinkEmpties ==
    [][\A n \in HandlerNames :
         /\ (n \in logger.handlers /\ n \notin logger'.handlers /\ logger'.state # "ShutDown")
               => (logfiles'[n] = Missing /\ get_log_history(logfiles', n) = <<>>)
         /\ (n \notin logger.handlers /\ n \notin logger'.handlers /\ logfiles[n] = Missing)
               => get_log_history(logfiles', n) = <<>>]_vars

C4_Witness ==
    /\ pc = "lib"
    /\ Len(events) >= 1
    /\ events[Len(events)].e = "unlink"
    /\ test_log_file \notin logger.handlers
    /\ logfiles[test_log_file] = Missing
    /\ log_file \in logger.handlers
    /\ Len(get_log_history(logfiles, log_file)) >= 1
    /\ callCount = MaxOps

\* C5: at process exit no file handle opened during the run is still
\* open (upload source, download sink, log file).
C5_NoOpenHandleAtExit == pc = "exit" => handles = {}

\* C6: the commands process the items one after another in the given
\* order with at most one client operation in flight; every completed
\* item got exactly one preview (preview, download), exactly one upload
\* (upload) and at most one download preceded by its preview (download);
\* items not yet reached got no call; a call is only issued when no other
\* call is in flight.
C6_Inv ==
    /\ Cardinality(inflight) <= 1
    /\ \A j1, j2 \in 1..Len(OpEvents) : j1 < j2 => OpEvents[j1].k <= OpEvents[j2].k
    /\ \A j \in 1..Len(OpEvents) : OpEvents[j].k \in 1..Len(CmdItems)
    /\ \A k \in 1..Len(CmdItems) :
            /\ Count("preview", k) <= 1 /\ Count("upload", k) <= 1 /\ Count("download", k) <= 1
            /\ k > i =>
                   Count("preview", k) + Count("upload", k) + Count("download", k) = 0
            /\ (k < i /\ args.command = "preview") =>
                   (Count("preview", k) = 1 /\ Count("upload", k) + Count("download", k) = 0)
            /\ (k < i /\ args.command = "upload") =>
                   (Count("upload", k) = 1 /\ Count("preview", k) + Count("download", k) = 0)
            /\ (k < i /\ args.command = "download") =>
                   (Count("preview", k) = 1 /\ Count("upload", k) = 0)
            /\ Count("download", k) = 1 => Count("preview", k) = 1
    /\ NormalExit => i = Len(CmdItems) + 1

C6_Sequential ==
    /\ []C6_Inv
    /\ [][Len(OpEvents') > Len(OpEvents) =>
            (inflight = {} /\ Len(OpEvents') = Len(OpEvents) + 1)]_vars

C6_Witness ==
    /\ NormalExit
    /\ args.command = "download"
    /\ Len(items) = MaxItems
    /\ \A k \in 1..Len(items) : Count("preview", k) = 1 /\ Count("download", k) = 1

\* C7: set_base_path happens before add_handler, both happen before the
\* first client operation, nothing happens to the logger or the client
\* after shutdown(), and the logger's state only moves forward along
\* Uninitialized -> BasePathSet -> HandlersAttached -> ShutDown.
LifecycleEdges ==
    {<<"Absent", "Uninitialized">>, <<"Uninitialized", "BasePathSet">>,
     <<"BasePathSet", "HandlersAttached">>, <<"Uninitialized", "ShutDown">>,
     <<"BasePathSet", "ShutDown">>, <<"HandlersAttached", "ShutDown">>}

C7_Inv ==
    \A j \in 1..Len(events) :
        /\ events[j].e = "add_handler" => Before("set_base_path", j)
        /\ events[j].e \in OpNames => (Before("set_base_path", j) /\ Before("add_handler", j))
        /\ events[j].e = "shutdown" => j = Len(events)

C7_Lifecycle ==
    /\ []C7_Inv
    /\ [][/\ logger'.state # logger.state => <<logger.state, logger'.state>> \in LifecycleEdges
          /\ (callCount' # callCount \/ logfiles' # logfiles) =>
                 (logger.state \in {"BasePathSet", "HandlersAttached"} /\ logger'.state # "ShutDown")
          /\ callCount' # callCount => logger.state = "HandlersAttached"]_vars

C7_Witness ==
    /\ pc = "exit"
    /\ logger.state = "ShutDown"
    /\ callCount >= 2
    /\ Len(logfiles[log_file]) >= 2

\* C8: once a client operation has raised for item k, no client operation
\* is issued any more (in particular none for an item after k), the
\* exception reaches main()'s handlers unchanged, and it is rendered
\* exactly once (a KeyboardInterrupt, which is not an error, is rendered
\* not at all).
C8_Inv ==
    raisedAt # 0 =>
        /\ pc \in {"except", "finally", "exit"}
        /\ pc = "except" => exc \in ClientErrors
        /\ pc \in {"finally", "exit"} =>
              /\ caught \in ClientErrors
              /\ Len(Renderings) = IF caught = "KeyboardInterrupt" THEN 0 ELSE 1
        /\ \A j \in 1..Len(OpEvents) : OpEvents[j].k <= raisedAt
        /\ inflight = {}

C8_ErrorPropagates ==
    /\ []C8_Inv
    /\ [][raisedAt # 0 => (callCount' = callCount /\ OpEvents' = OpEvents /\ raisedAt' = raisedAt)]_vars

C8_Witness ==
    /\ pc = "exit"
    /\ raisedAt = 1
    /\ Len(CmdItems) = MaxItems
    /\ caught = "HTTPError"
    /\ Len(Renderings) = 1
    /\ Len(OpEvents) = 1

\* C9: in the download command, a declined overwrite prompt for a resource
\* means no anon.download call and no file/md5 summary for it, and the
\* loop goes on with the next resource; without --check no prompt is
\* issued and every resource whose preview returned gets its download
\* call.
Prompts(k) == Count("prompt_yes", k) + Count("prompt_no", k) + Count("prompt_raise", k)

C9_Inv ==
    args.command = "download" =>
        /\ \A k \in 1..Len(items) :
              /\ Count("prompt_no", k) >= 1 =>
                    /\ Count("download", k) = 0
                    /\ \A j \in 1..Len(out) : out[j].k = k => out[j].kind \notin SummaryKinds
              /\ ~args.check => Prompts(k) = 0
              /\ (k < i /\ Count("prompt_no", k) = 0) => Count("download", k) = 1
              /\ (~args.check /\ k = i /\ pc \in {"dl_download_ret", "dl_md5"}) =>
                    Count("download", k) = 1
        /\ NormalExit => \A k \in 1..Len(items) : Count("preview", k) = 1

C9_DeclineSkips ==
    /\ []C9_Inv
    /\ [][Count("prompt_no", i)' > Count("prompt_no", i) =>
            (pc' = "dl_loop" /\ i' = i + 1 /\ exc' = "none")]_vars

C9_Witness ==
    /\ NormalExit
    /\ args.command = "download"
    /\ args.check
    /\ Count("prompt_no", 1) = 1
    /\ Count("download", 1) = 0
    /\ Count("download", 2) = 1

\* C10: the overwrite prompt is issued exactly when a file with the
\* download's target name exists in args.path, and the verbose summary
\* names and hashes the file written under args.path (the preview's name,
\* or the resource identifier when the preview has no name).
C10_SameFile ==
    args.command = "download" =>
        /\ pc = "dl_prompt" => <<args.path, DownloadTarget(items[i])>> \in fs
        /\ (pc = "dl_download" /\ args.check /\ Prompts(i) = 0) =>
               <<args.path, DownloadTarget(items[i])>> \notin fs
        /\ \A j \in 1..Len(out) :
               out[j].kind \in SummaryKinds =>
                   out[j].path = <<args.path, DownloadTarget(items[out[j].k])>>
        /\ (pc = "dl_check" /\ args.check) =>
               (OverwriteCheck <=> <<args.path, DownloadTarget(items[i])>> \in fs)
        /\ pc = "dl_md5" => ChecksumPath = <<args.path, DownloadTarget(items[i])>>
====
